---- MODULE Spec2Model ----
(***************************************************************************)
(* Model of src/app.py: the SERP normalizer (fetch_serp_results), the      *)
(* competitor brief builder (build_competitor_brief and the helpers it     *)
(* calls) and the pipeline of main() that runs one after the other.        *)
(*                                                                         *)
(* Conventions.  A Python str on which the code works character by        *)
(* character (strip, lower, substring test) is a sequence of one-character *)
(* strings.  An optional value (a missing key, a JSON null, Python None)   *)
(* is a set: {} for None and {v} for the value v.  A text that the code    *)
(* only measures and cuts (page text) is a sequence of word lengths.       *)
(***************************************************************************)
EXTENDS Integers, Sequences, FiniteSets, TLC

VARIABLES
    pc,          \* position of the running call / of main()
    caller,      \* the entry point that runs: fetch_serp_results, build_competitor_brief or main
    keyword,     \* argument keyword of fetch_serp_results (optional str)
    limit,       \* argument limit
    device,      \* argument device
    language_name, \* argument language_name (optional str)
    location_name, \* argument location_name (optional str)
    payload,     \* the task object sent to the ranking API ({} before it is built)
    posts,       \* number of POST requests issued to the ranking API
    http,        \* the answer of the POST: [net, status]
    parsed,      \* whether response.json() has been called
    response,    \* the decoded body (payload_response)
    ti,          \* index of the task the loop of line 85 is at
    results,     \* the local list results of fetch_serp_results
    outcome,     \* how fetch_serp_results ended: an exception or a return
    returned,    \* the list fetch_serp_results returned
    brief_in,    \* argument results of build_competitor_brief
    max_competitors, \* argument max_competitors
    bi,          \* index of the item the loop of line 170 is at
    page,        \* the answers of the GETs so far, in order
    briefs,      \* the local list briefs of build_competitor_brief
    brief,       \* the string build_competitor_brief returned (optional)
    log          \* network events in the order they happen

vars == <<pc, caller, keyword, limit, device, language_name, location_name,
          payload, posts, http, parsed, response, ti, results, outcome,
          returned, brief_in, max_competitors, bi, page, briefs, brief, log>>

serpVars == <<keyword, limit, device, language_name, location_name, payload,
              posts, http, parsed, response, ti, results, outcome, returned>>

briefVars == <<brief_in, max_competitors, bi, page, briefs, brief>>

(***************************************************************************)
(* Bounds of the model.                                                    *)
(***************************************************************************)
MaxKeywordLen == 2
MaxLimit == 151
MaxCallLimit == 3
MaxTasks == 2
MaxResults == 2
MaxItems == 3
MaxBriefLen == 3

(***************************************************************************)
(* Optional values and Python truthiness.                                  *)
(***************************************************************************)
None == {}

Some(v) == {v}

Get(o) == CHOOSE v \in o : TRUE

\* o or d, for an optional str o: the value if it is a non-empty str, else d
StrOr(o, d) == IF o # None /\ Get(o) # <<>> THEN Get(o) ELSE d

\* bool(o) for an optional int
IntTruthy(o) == o # None /\ Get(o) # 0

Min(a, b) == IF a <= b THEN a ELSE b

Max(a, b) == IF a >= b THEN a ELSE b

(***************************************************************************)
(* str.strip, str.lower and the substring test, on character sequences.    *)
(***************************************************************************)
Whitespace == {" ", "\t"}

\* a keyword that is not trimmed
NotStripped(s) == s

RECURSIVE LStrip(_)
LStrip(s) ==
    IF s # <<>> /\ Head(s) \in Whitespace THEN LStrip(Tail(s)) ELSE s

RECURSIVE RStrip(_)
RStrip(s) ==
    IF s # <<>> /\ s[Len(s)] \in Whitespace
    THEN RStrip(SubSeq(s, 1, Len(s) - 1))
    ELSE s

\* str.strip
Strip(s) == RStrip(LStrip(s))

LowerChar(c) ==
    CASE c = "O" -> "o" [] c = "R" -> "r" [] c = "G" -> "g" [] c = "A" -> "a"
      [] c = "N" -> "n" [] c = "I" -> "i" [] c = "C" -> "c" [] c = "F" -> "f"
      [] c = "E" -> "e" [] c = "T" -> "t" [] c = "U" -> "u" [] c = "D" -> "d"
      [] c = "S" -> "s" [] c = "P" -> "p" [] c = "W" -> "w" [] c = "B" -> "b"
      [] c = "X" -> "x" [] c = "M" -> "m" [] c = "L" -> "l"
      [] OTHER -> c

Lower(s) == [i \in 1..Len(s) |-> LowerChar(s[i])]

\* sub in s
Contains(s, sub) ==
    \E i \in 1..(Len(s) - Len(sub) + 1) : SubSeq(s, i, i + Len(sub) - 1) = sub

(***************************************************************************)
(* The JSON the ranking API can answer with (response.json(), line 72).    *)
(* Characters of the type strings the model uses.                          *)
(***************************************************************************)
ORGANIC == <<"o", "r", "g", "a", "n", "i", "c">>

FEATURED_SNIPPET ==
    <<"f", "e", "a", "t", "u", "r", "e", "d", "_", "s", "n", "i", "p", "p", "e", "t">>

ANSWER_BOX == <<"a", "n", "s", "w", "e", "r", "_", "b", "o", "x">>

\* the allow-list of lines 119-122
AllowedTypeKeywords == {ORGANIC, FEATURED_SNIPPET, ANSWER_BOX}

IMAGE == <<"i", "m", "a", "g", "e">>

TypeValues ==
    { None,
      Some(<<>>),
      Some(ORGANIC),
      Some(<<"O", "r", "g", "a", "n", "i", "c">>),
      Some(<<"o", "r", "g">>),
      Some(FEATURED_SNIPPET),
      Some(<<"A", "N", "S", "W", "E", "R", "_", "B", "O", "X">>),
      Some(IMAGE) }

URL_A == <<"a">>

URL_B == <<"b">>

UrlValues == {None, Some(<<>>), Some(URL_A), Some(URL_B)}

\* One item of a result's item list.  The rank, title and text fields follow
\* the url, so that two accepted items can be told apart and the API can list
\* them in an order that is not the order of their positions.
MkItem(u, t) ==
    [ url           |-> u,
      type          |-> t,
      rank_group    |-> IF u = Some(URL_A) THEN Some(1) ELSE None,
      rank_absolute |-> IF u = Some(URL_A) THEN Some(7) ELSE Some(0),
      title         |-> IF u = Some(URL_B) THEN None ELSE Some("title"),
      snippet       |-> IF u = Some(URL_A) THEN Some("snippet") ELSE None,
      description   |-> IF u = None THEN None ELSE Some("description") ]

\* every url value with every type value
Items == { MkItem(u, t) : u \in UrlValues, t \in TypeValues }

\* the items of the lists of two items or more
CoreItems ==
    { MkItem(Some(URL_A), Some(ORGANIC)),
      MkItem(Some(URL_B), None),
      MkItem(None, Some(ORGANIC)),
      MkItem(None, Some(IMAGE)),
      MkItem(Some(URL_B), Some(IMAGE)) }

ItemListsOfLen(n) == IF n <= 1 THEN [1..n -> Items] ELSE [1..n -> CoreItems]

ItemLists == UNION { ItemListsOfLen(n) : n \in 0..MaxItems }

\* The "items" value of a result object: a list ("list"), a dict holding the
\* list under its own "items" key ("dict_list"), null or missing ("null"), a
\* dict without that key ("dict_null"), or a value that is neither a list
\* nor a dict ("str", a non-empty string).
EmptyResultObjs ==
    { [shape |-> sh, items |-> <<>>] : sh \in {"null", "dict_null", "str"} }

ListResultObjs ==
    { [shape |-> sh, items |-> l] : sh \in {"list", "dict_list"}, l \in ItemLists }

\* the result objects of the lists of several result objects
ResultValues ==
    EmptyResultObjs
    \cup { [shape |-> "list", items |-> << MkItem(Some(URL_A), Some(ORGANIC)) >>],
           [shape |-> "dict_list",
            items |-> << MkItem(Some(URL_B), None), MkItem(None, Some(ORGANIC)) >>],
           [shape |-> "list", items |-> << MkItem(Some(URL_B), Some(IMAGE)) >>] }

ResultLists == UNION { [1..n -> ResultValues] : n \in 0..MaxResults }

STATUS_OK == 20000

STATUS_INVALID_POST == 40503

\* A task: its status and its "result" value, which is a list of result
\* objects ("list", possibly empty), null or missing ("null"), or a non-empty
\* value that is not a list ("dict").
OkTask(shape, rs) ==
    [status_code |-> Some(STATUS_OK), status_message |-> Some("Ok."),
     result_shape |-> shape, result |-> rs]

\* A task whose status is not the success code: a code with the API's
\* message or without one, or no code and no message.  It carries no result.
FailedTasks ==
    { [status_code |-> f[1], status_message |-> f[2],
       result_shape |-> "null", result |-> <<>>]
      : f \in { <<Some(STATUS_INVALID_POST), Some("POST Data Is Invalid.")>>,
                <<Some(40501), Some("Invalid Field.")>>,
                <<Some(40501), None>>,
                <<None, None>> } }

\* the tasks of the lists of several tasks
TaskValues ==
    FailedTasks
    \cup { OkTask("null", <<>>), OkTask("dict", <<>>), OkTask("list", <<>>) }
    \cup { OkTask("list", <<r>>) : r \in ResultValues \ EmptyResultObjs }

\* The task lists: one task with one result object and any item list, one
\* task with any list of result objects, and any list of tasks.
TaskLists ==
    { << OkTask("list", <<r>>) >> : r \in ListResultObjs }
    \cup { << OkTask("list", rs) >> : rs \in ResultLists }
    \cup UNION { [1..n -> TaskValues] : n \in 0..MaxTasks }

\* The bodies the ranking API can answer with: one that is not JSON, ones
\* whose top-level status is the success code, with any task list or none,
\* and ones whose top-level status is not, with at most one task.
InvalidBody ==
    [valid |-> FALSE, status_code |-> None, status_message |-> None,
     tasks_shape |-> "null", tasks |-> <<>>]

OkBody(ts) ==
    [valid |-> TRUE, status_code |-> Some(STATUS_OK), status_message |-> Some("Ok."),
     tasks_shape |-> "list", tasks |-> ts]

FailedBodies ==
    { [valid |-> TRUE, status_code |-> c[1], status_message |-> c[2],
       tasks_shape |-> "list", tasks |-> ts]
      : c \in { <<Some(40200), Some("Payment Required.")>>,
                <<Some(40200), None>>,
                <<None, None>> },
        ts \in UNION { [1..n -> TaskValues] : n \in 0..1 } }

Responses ==
    {InvalidBody}
    \cup { OkBody(ts) : ts \in TaskLists }
    \cup { [valid |-> TRUE, status_code |-> Some(STATUS_OK),
            status_message |-> Some("Ok."), tasks_shape |-> "null", tasks |-> <<>>] }
    \cup FailedBodies

(***************************************************************************)
(* fetch_serp_results (lines 28-143).                                      *)
(***************************************************************************)
\* How a call ends.  kind and reason name the exception by the condition it
\* reports; message and code are the API's status text and code that the
\* exception's text carries.
Pending == [kind |-> "Pending", reason |-> "", message |-> "", code |-> None]

Returned == [kind |-> "Return", reason |-> "", message |-> "", code |-> None]

Raise(kind, reason, message, code) ==
    [kind |-> kind, reason |-> reason, message |-> message, code |-> code]

\* a depth rounded from limit // 10 instead of (limit - 1) // 10
NormalizedDepthFromFloor(l) == Max(10, Min(100, (l \div 10 + 1) * 10))

\* line 42
NormalizedDepth(l) == Max(10, Min(100, ((l - 1) \div 10 + 1) * 10))

\* x and x.strip(), then x.strip(): the optional name of lines 53-56
OptionalName(x) ==
    IF x # None /\ Get(x) # <<>> /\ Strip(Get(x)) # <<>> THEN Some(Strip(Get(x))) ELSE None

\* lines 44-56
BuildPayload(kw, l, dev, lang, loc) ==
    [ keyword       |-> kw,
      device        |-> dev,
      depth         |-> NormalizedDepth(l),
      os            |-> IF dev = "desktop" THEN Some("windows")
                        ELSE IF dev = "mobile" THEN Some("android") ELSE None,
      language_name |-> OptionalName(lang),
      location_name |-> OptionalName(loc) ]

\* lines 73-78: the error of a top-level status that is not the success code
TopLevelFailure(body) ==
    Raise("ApiError", "TopLevel",
          IF body.status_message = None THEN "errore sconosciuto"
          ELSE Get(body.status_message),
          body.status_code)

\* a task failure that does not tell 40503 from the other codes
TaskFailureGeneric(task) ==
    Raise("ApiError", "TaskFailed",
          IF task.status_message = None THEN "nessun messaggio disponibile"
          ELSE Get(task.status_message),
          task.status_code)

\* lines 86-98: the error of a task whose status is not the success code
TaskFailure(task) ==
    IF task.status_code = Some(STATUS_INVALID_POST)
    THEN Raise("ApiError", "MalformedRequest", "", None)
    ELSE Raise("ApiError", "TaskFailed",
               IF task.status_message = None THEN "nessun messaggio disponibile"
               ELSE Get(task.status_message),
               task.status_code)

\* the checks of a task with the result check made before the status check
TaskErrorResultFirst(task) ==
    IF task.result_shape # "list" \/ task.result = <<>>
    THEN Some(Raise("ApiError", "NoResults", "", None))
    ELSE IF task.status_code # Some(STATUS_OK) THEN Some(TaskFailure(task))
    ELSE None

\* lines 86-105: the error one task ends the call with, None if it passes
\* the status check and the result check
TaskError(task) ==
    IF task.status_code # Some(STATUS_OK) THEN Some(TaskFailure(task))
    ELSE IF task.result_shape # "list" \/ task.result = <<>>
    THEN Some(Raise("ApiError", "NoResults", "", None))
    ELSE None

\* response.raise_for_status(): an HTTPError for a 4xx or 5xx status
RaisesForStatus(status) == 400 <= status /\ status < 600

\* an item filter without the permissive default: the type must be allow-listed
ItemAcceptedByTypeOnly(item) ==
    /\ item.url # None /\ Get(item.url) # <<>>
    /\ \E kw \in AllowedTypeKeywords : Contains(Lower(StrOr(item.type, <<>>)), kw)

\* lines 115-123: the item has a url and a type that is empty or allow-listed
ItemAccepted(item) ==
    LET url == item.url
        item_type == Lower(StrOr(item.type, <<>>))
    IN  /\ url # None /\ Get(url) # <<>>
        /\ ~ ( /\ item_type # <<>>
               /\ ~ \E kw \in AllowedTypeKeywords : Contains(item_type, kw) )

\* lines 125-134
SerpResult(item) ==
    [ position |-> IF IntTruthy(item.rank_group) THEN Get(item.rank_group)
                   ELSE IF IntTruthy(item.rank_absolute) THEN Get(item.rank_absolute)
                   ELSE 0,
      title    |-> IF item.title = None THEN "" ELSE Get(item.title),
      url      |-> Get(item.url),
      snippet  |-> IF item.snippet # None /\ Get(item.snippet) # ""
                   THEN Get(item.snippet)
                   ELSE IF item.description # None /\ Get(item.description) # ""
                   THEN Get(item.description)
                   ELSE "" ]

\* lines 114-135: the results one item list appends, in the list's order
RECURSIVE ItemsResults(_)
ItemsResults(items) ==
    IF items = <<>> THEN <<>>
    ELSE (IF ItemAccepted(Head(items)) THEN <<SerpResult(Head(items))>> ELSE <<>>)
         \o ItemsResults(Tail(items))

\* lines 108-112: the item list of a result object, unwrapped; empty when
\* the value is missing, empty or not a list
RawItems(result) ==
    IF result.shape \in {"list", "dict_list"} THEN result.items ELSE <<>>

\* lines 107-135: the results the result objects of one task append
RECURSIVE TaskResults(_)
TaskResults(task_results) ==
    IF task_results = <<>> THEN <<>>
    ELSE ItemsResults(RawItems(Head(task_results))) \o TaskResults(Tail(task_results))

\* a slice at the padded depth instead of at n
PySliceAtDepth(s, n) == SubSeq(s, 1, Min(NormalizedDepth(n), Len(s)))

\* results[:n] of Python
PySlice(s, n) ==
    IF n >= 0 THEN SubSeq(s, 1, Min(n, Len(s)))
    ELSE SubSeq(s, 1, Max(0, Len(s) + n))

\* lines 38-56: the keyword check, then the payload
Validate ==
    /\ pc = "validate"
    /\ LET kw == Strip(StrOr(keyword, <<>>))
       IN  IF kw = <<>>
           THEN /\ outcome' = Raise("EmptyQuery", "", "", None)
                /\ pc' = "raised"
                /\ UNCHANGED payload
           ELSE /\ payload' = Some(BuildPayload(kw, limit, device,
                                               language_name, location_name))
                /\ pc' = "post"
                /\ UNCHANGED outcome
    /\ UNCHANGED <<caller, keyword, limit, device, language_name, location_name,
                   posts, http, parsed, response, ti, results, returned, log>>
    /\ UNCHANGED briefVars

\* line 57: the POST leaves
PostSend ==
    /\ pc = "post"
    /\ posts' = posts + 1
    /\ log' = Append(log, <<"post", 0>>)
    /\ pc' = "await_post"
    /\ UNCHANGED <<caller, keyword, limit, device, language_name, location_name,
                   payload, http, parsed, response, ti, results, outcome, returned>>
    /\ UNCHANGED briefVars

\* What requests.post can give: an exception (no connection, a timeout) or a
\* response with an HTTP status.
HttpStatusValues == {200, 304, 401, 403, 500}

HttpAnswers ==
    { [net |-> "error", status |-> 0] }
    \cup { [net |-> "ok", status |-> st] : st \in HttpStatusValues }

\* lines 57-62: requests.post returns or raises
PostRecv ==
    /\ pc = "await_post"
    /\ \E a \in HttpAnswers :
        /\ http' = a
        /\ IF a.net = "error"
           THEN /\ outcome' = Raise("TransportError", "Network", "", None)
                /\ pc' = "raised"
           ELSE /\ pc' = "status"
                /\ UNCHANGED outcome
    /\ log' = Append(log, <<"post_done", 0>>)
    /\ UNCHANGED <<caller, keyword, limit, device, language_name, location_name,
                   payload, posts, parsed, response, ti, results, returned>>
    /\ UNCHANGED briefVars

\* lines 63-70
CheckStatus ==
    /\ pc = "status"
    /\ IF RaisesForStatus(http.status)
       THEN /\ outcome' = IF http.status = 401
                          THEN Raise("AuthError", "", "", None)
                          ELSE Raise("TransportError", "HttpStatus", "", Some(http.status))
            /\ pc' = "raised"
       ELSE /\ pc' = "json"
            /\ UNCHANGED outcome
    /\ UNCHANGED <<caller, keyword, limit, device, language_name, location_name,
                   payload, posts, http, parsed, response, ti, results, returned, log>>
    /\ UNCHANGED briefVars

\* lines 72-82: the body is decoded, then the top-level checks
ParseJson(bodies) ==
    /\ pc = "json"
    /\ \E body \in bodies :
        /\ response' = body
        /\ IF ~ body.valid
           THEN /\ outcome' = Raise("DecodeError", "", "", None)
                /\ pc' = "raised"
           ELSE IF body.status_code # Some(STATUS_OK)
           THEN /\ outcome' = TopLevelFailure(body)
                /\ pc' = "raised"
           ELSE IF body.tasks_shape # "list" \/ body.tasks = <<>>
           THEN /\ outcome' = Raise("ApiError", "NoTasks", "", None)
                /\ pc' = "raised"
           ELSE /\ pc' = "tasks"
                /\ UNCHANGED outcome
    /\ parsed' = TRUE
    /\ ti' = 1
    /\ results' = <<>>
    /\ UNCHANGED <<caller, keyword, limit, device, language_name, location_name,
                   payload, posts, http, returned, log>>
    /\ UNCHANGED briefVars

\* lines 85-135: one turn of the loop over the tasks
TaskStep ==
    /\ pc = "tasks"
    /\ ti <= Len(response.tasks)
    /\ LET task == response.tasks[ti]
       IN  IF TaskError(task) # None
           THEN /\ outcome' = Get(TaskError(task))
                /\ pc' = "raised"
                /\ UNCHANGED <<ti, results>>
           ELSE /\ results' = results \o TaskResults(task.result)
                /\ ti' = ti + 1
                /\ UNCHANGED <<pc, outcome>>
    /\ UNCHANGED <<caller, keyword, limit, device, language_name, location_name,
                   payload, posts, http, parsed, response, returned, log>>
    /\ UNCHANGED briefVars

\* lines 137-143
Finish ==
    /\ pc = "tasks"
    /\ ti > Len(response.tasks)
    /\ IF results = <<>>
       THEN /\ outcome' = Raise("ApiError", "NoOrganicResults", "", None)
            /\ pc' = "raised"
            /\ UNCHANGED returned
       ELSE /\ returned' = Some(PySlice(results, limit))
            /\ outcome' = Returned
            /\ pc' = "returned"
    /\ UNCHANGED <<caller, keyword, limit, device, language_name, location_name,
                   payload, posts, http, parsed, response, ti, results, log>>
    /\ UNCHANGED briefVars

(***************************************************************************)
(* extract_text_from_html, fetch_competitor_content and                    *)
(* build_competitor_brief (lines 146-180).  A text is the sequence of the  *)
(* lengths of its words; a page is a sequence of blocks, each a tag and    *)
(* the text in it.                                                         *)
(***************************************************************************)
EXTRACT_WIDTH == 2000

EXCERPT_WIDTH == 350

RECURSIVE SumLen(_)
SumLen(ws) == IF ws = <<>> THEN 0 ELSE Head(ws) + SumLen(Tail(ws))

\* len(' '.join(ws))
TextLen(ws) == IF ws = <<>> THEN 0 ELSE SumLen(ws) + Len(ws) - 1

\* textwrap.shorten(text, width=width, placeholder='…'): the text if it
\* fits, else the longest run of whole leading words that fits with the
\* one-character placeholder, which ends the last word kept (or stands alone)
Shorten(ws, width) ==
    IF TextLen(ws) <= width THEN ws
    ELSE LET fits == { j \in 0..(Len(ws) - 1) : TextLen(SubSeq(ws, 1, j)) + 1 <= width }
             k == CHOOSE j \in fits : \A i \in fits : i <= j
         IN  IF k = 0 THEN <<1>>
             ELSE SubSeq(ws, 1, k - 1) \o <<ws[k] + 1>>

\* lines 148-152: the words of the paragraphs, scripts and styles dropped
RECURSIVE Paragraphs(_)
Paragraphs(html) ==
    IF html = <<>> THEN <<>>
    ELSE (IF Head(html).tag = "p" THEN Head(html).words ELSE <<>>)
         \o Paragraphs(Tail(html))

\* lines 146-153
ExtractTextFromHtml(html) == Shorten(Paragraphs(html), EXTRACT_WIDTH)

\* What requests.get can give for a competitor page.
Htmls ==
    { <<>>,
      << [tag |-> "script", words |-> <<40>>] >>,
      << [tag |-> "p", words |-> <<5, 7>>] >>,
      << [tag |-> "script", words |-> <<40>>], [tag |-> "p", words |-> <<200, 149, 30>>] >>,
      << [tag |-> "p", words |-> <<1500>>], [tag |-> "p", words |-> <<300, 300>>] >> }

\* net is "ok" for a response, or the exception requests.get raised
PageAnswers ==
    { [net |-> e, status |-> 0, html |-> <<>>] : e \in {"ConnectionError", "Timeout"} }
    \cup { [net |-> "ok", status |-> 404,
             html |-> << [tag |-> "p", words |-> <<5, 7>>] >>] }
    \cup { [net |-> "ok", status |-> 200, html |-> h] : h \in Htmls }

\* lines 160-161: the exception the try block ends with, "none" if it ends well
FetchException(answer) ==
    IF answer.net # "ok" THEN answer.net
    ELSE IF RaisesForStatus(answer.status) THEN "HTTPError"
    ELSE "none"

\* an except clause for requests.HTTPError alone
CaughtIfHttpError(exception) == exception = "HTTPError"

\* line 162: except requests.RequestException
CaughtByFetch(exception) == exception \in {"ConnectionError", "Timeout", "HTTPError"}

\* lines 156-164: None for an exception that is caught, else the text
FetchCompetitorContent(answer) ==
    IF FetchException(answer) # "none"
    THEN None
    ELSE Some(ExtractTextFromHtml(answer.html))

\* lines 172-179: the entry of one result
BriefEntry(result, content) ==
    IF content = None \/ Get(content) = <<>>
    THEN [kind |-> "fallback", title |-> result.title, url |-> result.url,
          excerpt |-> <<>>]
    ELSE [kind |-> "excerpt", title |-> result.title, url |-> result.url,
          excerpt |-> Shorten(Get(content), EXCERPT_WIDTH)]

Newline == [kind |-> "newline", title |-> "", url |-> <<>>, excerpt |-> <<>>]

\* "\n".join(briefs), as a list of entries and newlines
RECURSIVE Join(_)
Join(entries) ==
    IF entries = <<>> THEN <<>>
    ELSE IF Len(entries) = 1 THEN entries
    ELSE <<Head(entries), Newline>> \o Join(Tail(entries))

\* the whole list, not cut at max_competitors
SelectedAll == brief_in

\* line 170: list(results)[:max_competitors]
Selected == PySlice(brief_in, max_competitors)

\* lines 169-170: the call starts
BriefStart ==
    /\ pc = "brief"
    /\ briefs' = <<>>
    /\ bi' = 1
    /\ pc' = "brief_loop"
    /\ UNCHANGED <<caller, brief_in, max_competitors, page, brief, log>>
    /\ UNCHANGED serpVars

\* lines 171, 160: the GET of the next result leaves
GetSend ==
    /\ pc = "brief_loop"
    /\ bi <= Len(Selected)
    /\ log' = Append(log, <<"get", bi>>)
    /\ pc' = "await_get"
    /\ UNCHANGED <<caller, brief_in, max_competitors, bi, page, briefs, brief>>
    /\ UNCHANGED serpVars

\* lines 160-164, 172-179: requests.get returns or raises, the entry is added
GetRecv ==
    /\ pc = "await_get"
    /\ \E answer \in PageAnswers :
        /\ page' = Append(page, answer)
        /\ IF FetchException(answer) # "none" /\ ~ CaughtByFetch(FetchException(answer))
           THEN \* the exception leaves build_competitor_brief
                /\ pc' = "brief_raised"
                /\ UNCHANGED <<briefs, bi>>
           ELSE /\ briefs' = Append(briefs,
                                    BriefEntry(Selected[bi], FetchCompetitorContent(answer)))
                /\ bi' = bi + 1
                /\ pc' = "brief_loop"
    /\ log' = Append(log, <<"get_done", bi>>)
    /\ UNCHANGED <<caller, brief_in, max_competitors, brief>>
    /\ UNCHANGED serpVars

\* line 180
BriefReturn ==
    /\ pc = "brief_loop"
    /\ bi > Len(Selected)
    /\ brief' = Some(Join(briefs))
    /\ pc' = "brief_done"
    /\ UNCHANGED <<caller, brief_in, max_competitors, bi, page, briefs, log>>
    /\ UNCHANGED serpVars

(***************************************************************************)
(* main() (lines 251-353): the form, then fetch_serp_results, then         *)
(* build_competitor_brief, then the generation call.                       *)
(***************************************************************************)
SLIDER_MIN == 3

SLIDER_MAX == 20

DEFAULT_MAX_COMPETITORS == 5

\* lines 283-288: the button is pressed; the run stops unless the query and
\* the three credentials are filled in
FormCheck ==
    /\ pc = "form"
    /\ \E credentials \in BOOLEAN :
        pc' = IF Get(keyword) # <<>> /\ credentials THEN "validate" ELSE "stopped"
    /\ UNCHANGED <<caller, log>>
    /\ UNCHANGED serpVars
    /\ UNCHANGED briefVars

\* an error that is shown without stopping the run: the brief is built from
\* the results gathered before the failure
MainSerpFailedGoesOn ==
    /\ caller = "main"
    /\ pc = "raised"
    /\ brief_in' = results
    /\ max_competitors' = DEFAULT_MAX_COMPETITORS
    /\ pc' = "brief"
    /\ UNCHANGED <<caller, bi, page, briefs, brief, log>>
    /\ UNCHANGED serpVars

\* lines 301-303: fetch_serp_results raised; the error is shown, the run stops
MainSerpFailed ==
    /\ caller = "main"
    /\ pc = "raised"
    /\ pc' = "stopped"
    /\ UNCHANGED <<caller, log>>
    /\ UNCHANGED serpVars
    /\ UNCHANGED briefVars

\* lines 305-322: fetch_serp_results returned; the list is shown and handed
\* to build_competitor_brief, unless it is empty
MainSerpReturned ==
    /\ caller = "main"
    /\ pc = "returned"
    /\ IF Get(returned) = <<>>
       THEN /\ pc' = "stopped"
            /\ UNCHANGED <<brief_in, max_competitors>>
       ELSE /\ brief_in' = Get(returned)
            /\ max_competitors' = DEFAULT_MAX_COMPETITORS
            /\ pc' = "brief"
    /\ UNCHANGED <<caller, bi, page, briefs, brief, log>>
    /\ UNCHANGED serpVars

\* lines 324-353: the brief is shown and the generation call is made
Generate ==
    /\ caller = "main"
    /\ pc = "brief_done"
    /\ \E generated \in BOOLEAN : pc' = IF generated THEN "done" ELSE "stopped"
    /\ UNCHANGED <<caller, log>>
    /\ UNCHANGED serpVars
    /\ UNCHANGED briefVars

(***************************************************************************)
(* Inputs and specifications.                                              *)
(***************************************************************************)
KeywordChars == {" ", "k"}

KeywordStrings == UNION { [1..n -> KeywordChars] : n \in 0..MaxKeywordLen }

KeywordValues == {None} \cup { Some(w) : w \in KeywordStrings }

DeviceValues == {"desktop", "mobile", "tablet"}

ITALY == <<"I", "t", "a", "l", "y">>

\* the pairs (language_name, location_name)
NameValues ==
    { <<None, None>>,
      <<Some(<<" ">>), Some(<<" ">> \o ITALY \o <<" ">>)>>,
      <<Some(ITALY), Some(<<>>)>> }

\* the bodies of the task lists of several tasks or result objects
PipelineResponses ==
    { r \in Responses :
        \/ \A i \in 1..Len(r.tasks) : r.tasks[i] \in TaskValues
        \/ Len(r.tasks) = 1 /\ r.tasks[1].result \in ResultLists }

\* the state before any call
Idle ==
    /\ payload = None
    /\ posts = 0
    /\ http = [net |-> "none", status |-> 0]
    /\ parsed = FALSE
    /\ response = InvalidBody
    /\ ti = 0
    /\ results = <<>>
    /\ outcome = Pending
    /\ returned = None
    /\ bi = 0
    /\ page = <<>>
    /\ briefs = <<>>
    /\ brief = None
    /\ log = <<>>

\* a call of fetch_serp_results(keyword, location_name, language_name, limit, .., device)
SerpCall(keywords, limits, devices, names) ==
    /\ pc = "validate"
    /\ keyword \in keywords
    /\ limit \in limits
    /\ device \in devices
    /\ \E n \in names : language_name = n[1] /\ location_name = n[2]
    /\ brief_in = <<>>
    /\ max_competitors = 0
    /\ Idle

\* The bodies that fail a top-level check, and one that passes every check.
FewResponses ==
    { r \in Responses : ~ r.valid \/ r.tasks = <<>> }
    \cup { OkBody(<< OkTask("list", << [shape |-> "list",
                       items |-> << MkItem(Some(URL_A), Some(ORGANIC)) >>] >>) >>) }

\* fetch_serp_results called with any keyword, limit, device and names
InitRequest ==
    /\ caller = "fetch_serp_results"
    /\ SerpCall(KeywordValues, (-1)..MaxLimit, DeviceValues, NameValues)

NextRequest ==
    \/ Validate
    \/ PostSend
    \/ PostRecv
    \/ CheckStatus
    \/ ParseJson(FewResponses)
    \/ TaskStep
    \/ Finish

SpecRequest == InitRequest /\ [][NextRequest]_vars

\* fetch_serp_results called with a small limit, answered with any body
Init ==
    /\ caller = "fetch_serp_results"
    /\ SerpCall({Some(<<"k">>)}, (-1)..MaxCallLimit, {"desktop"}, {<<None, None>>})

Next ==
    \/ Validate
    \/ PostSend
    \/ PostRecv
    \/ CheckStatus
    \/ ParseJson(Responses)
    \/ TaskStep
    \/ Finish

Spec == Init /\ [][Next]_vars

\* build_competitor_brief called on its own
BriefResults ==
    { [position |-> 1, title |-> "title", url |-> URL_A, snippet |-> "snippet"],
      [position |-> 0, title |-> "", url |-> URL_B, snippet |-> ""] }

InitBrief ==
    /\ caller = "build_competitor_brief"
    /\ pc = "brief"
    /\ keyword = None
    /\ limit = 0
    /\ device = "desktop"
    /\ language_name = None
    /\ location_name = None
    /\ brief_in \in UNION { [1..n -> BriefResults] : n \in 0..MaxBriefLen }
    /\ max_competitors \in (-1)..(MaxBriefLen + 1)
    /\ Idle

NextBrief ==
    \/ BriefStart
    \/ GetSend
    \/ GetRecv
    \/ BriefReturn

SpecBrief == InitBrief /\ [][NextBrief]_vars

\* main(): the widgets give a str keyword, a limit on the slider, one of the
\* two devices and the names typed in
InitMain ==
    /\ caller = "main"
    /\ pc = "form"
    /\ keyword \in { Some(<<>>), Some(<<" ">>), Some(<<"k">>), Some(<<" ", "k">>) }
    /\ limit \in {SLIDER_MIN, SLIDER_MAX}
    /\ device \in {"desktop", "mobile"}
    /\ language_name = Some(ITALY)
    /\ location_name = Some(ITALY)
    /\ brief_in = <<>>
    /\ max_competitors = 0
    /\ Idle

NextMain ==
    \/ FormCheck
    \/ Validate
    \/ PostSend
    \/ PostRecv
    \/ CheckStatus
    \/ ParseJson(PipelineResponses)
    \/ TaskStep
    \/ Finish
    \/ MainSerpFailed
    \/ MainSerpReturned
    \/ BriefStart
    \/ GetSend
    \/ GetRecv
    \/ BriefReturn
    \/ Generate

SpecMain == InitMain /\ [][NextMain]_vars

(***************************************************************************)
(* The claims.  What a claim says is written with definitions of its own:  *)
(* the items of a body in the order the API lists them, the types the      *)
(* allow-list admits, the layer that fails first.                          *)
(***************************************************************************)
\* fetch_serp_results has ended
SerpEnded == pc \in {"returned", "raised"}

RECURSIVE ItemsOfResults(_)
ItemsOfResults(rs) ==
    IF rs = <<>> THEN <<>>
    ELSE (IF Head(rs).shape \in {"list", "dict_list"} THEN Head(rs).items ELSE <<>>)
         \o ItemsOfResults(Tail(rs))

\* the items of a task list in the order task, result object, item
RECURSIVE ItemsOfTasks(_)
ItemsOfTasks(ts) ==
    IF ts = <<>> THEN <<>>
    ELSE ItemsOfResults(Head(ts).result) \o ItemsOfTasks(Tail(ts))

\* the type values that are absent, empty, or contain one of organic,
\* featured_snippet, answer_box whatever the case of their letters
AdmittedTypes ==
    { None,
      Some(<<>>),
      Some(ORGANIC),
      Some(<<"O", "r", "g", "a", "n", "i", "c">>),
      Some(FEATURED_SNIPPET),
      Some(<<"A", "N", "S", "W", "E", "R", "_", "B", "O", "X">>) }

Admitted(item) == item.url \notin {None, Some(<<>>)} /\ item.type \in AdmittedTypes

\* the merged list of accepted items of a body
Merged(body) ==
    LET kept == SelectSeq(ItemsOfTasks(body.tasks), Admitted)
    IN  [i \in 1..Len(kept) |-> SerpResult(kept[i])]

TopLevelOk == parsed /\ response.valid /\ response.status_code = Some(STATUS_OK)

TaskStatusOk(task) == task.status_code = Some(STATUS_OK)

TaskHasResults(task) == task.result_shape = "list" /\ task.result # <<>>

\* C1: a successful call with a positive limit returns at most limit results,
\* and they are the first min(limit, n) of the n merged accepted items, in the
\* order task, result, item of the body: cut to the limit, not to the padded
\* depth, and not sorted by position.
C1_ReturnedIsPrefixOfMerged ==
    (pc = "returned" /\ limit > 0) =>
        LET merged == Merged(response)
        IN  /\ returned # None
            /\ Len(Get(returned)) <= limit
            /\ Get(returned) = SubSeq(merged, 1, Min(limit, Len(merged)))

\* C1's case: two accepted items from two tasks, the first with the larger
\* position, and a limit of one that keeps the first only.
C1_Witness ==
    /\ pc = "returned"
    /\ limit = 1
    /\ Len(response.tasks) = 2
    /\ Len(Merged(response)) = 2
    /\ Merged(response)[1].position > Merged(response)[2].position
    /\ Get(returned) = << Merged(response)[1] >>

\* C2 as stated: whenever the top-level status and every task status are
\* 20000, the items that yield a result are exactly those with a non-empty
\* url and an admitted type.
C2_AsStated ==
    ( /\ SerpEnded
      /\ TopLevelOk
      /\ \A i \in 1..Len(response.tasks) : TaskStatusOk(response.tasks[i]) )
    => results = Merged(response)

ExampleItems ==
    << MkItem(Some(URL_A), Some(ORGANIC)),
       MkItem(None, Some(ORGANIC)),
       MkItem(None, Some(IMAGE)) >>

\* C2, amended: whenever the top-level status and every task status are 20000
\* and every task has a non-empty result list, the items that yield a result
\* are exactly those with a non-empty url and an admitted type; every result
\* has a non-empty url; and for the items [a organic, no url organic, image]
\* exactly one result is returned.
C2_AcceptedItems ==
    /\ ( /\ SerpEnded
         /\ TopLevelOk
         /\ \A i \in 1..Len(response.tasks) :
                TaskStatusOk(response.tasks[i]) /\ TaskHasResults(response.tasks[i]) )
       => results = Merged(response)
    /\ \A i \in 1..Len(results) : results[i].url # <<>>
    /\ returned # None => \A i \in 1..Len(Get(returned)) : Get(returned)[i].url # <<>>
    /\ ( /\ SerpEnded
         /\ TopLevelOk
         /\ limit > 0
         /\ Len(response.tasks) = 1
         /\ TaskStatusOk(response.tasks[1])
         /\ response.tasks[1].result_shape = "list"
         /\ Len(response.tasks[1].result) = 1
         /\ response.tasks[1].result[1].shape = "list"
         /\ response.tasks[1].result[1].items = ExampleItems )
       => pc = "returned" /\ Len(Get(returned)) = 1

\* C2's case: the body with the three items of the example has been handled.
C2_Witness ==
    /\ pc = "returned"
    /\ Len(response.tasks) = 1
    /\ Len(response.tasks[1].result) = 1
    /\ response.tasks[1].result[1].items = ExampleItems
    /\ Len(results) = 1
    /\ Len(Get(returned)) = 1

\* the tasks that fail the status check, and those that fail the result check
BadStatusTasks(ts) == { i \in 1..Len(ts) : ~ TaskStatusOk(ts[i]) }

BadResultTasks(ts) == { i \in 1..Len(ts) : ~ TaskHasResults(ts[i]) }

Least(S) == CHOOSE i \in S : \A j \in S : i <= j

\* the reason a failing task status is reported with
StatusReason(task) ==
    IF task.status_code = Some(STATUS_INVALID_POST) THEN "MalformedRequest" ELSE "TaskFailed"

\* The layers of a decoded body taken one after the other over the whole
\* body: top-level status, task list, the status of every task, the result
\* list of every task, the merged list.  The first that fails, or "Return".
FirstFailingLayer(body) ==
    IF body.status_code # Some(STATUS_OK) THEN "TopLevel"
    ELSE IF body.tasks_shape # "list" \/ body.tasks = <<>> THEN "NoTasks"
    ELSE IF BadStatusTasks(body.tasks) # {}
    THEN StatusReason(body.tasks[Least(BadStatusTasks(body.tasks))])
    ELSE IF BadResultTasks(body.tasks) # {} THEN "NoResults"
    ELSE IF Merged(body) = <<>> THEN "NoOrganicResults"
    ELSE "Return"

\* The same with the two task checks made task by task: the first task, in
\* the order of the list, that fails its status check or, passing it, its
\* result check.
FirstFailingCheck(body) ==
    IF body.status_code # Some(STATUS_OK) THEN "TopLevel"
    ELSE IF body.tasks_shape # "list" \/ body.tasks = <<>> THEN "NoTasks"
    ELSE IF BadStatusTasks(body.tasks) \cup BadResultTasks(body.tasks) # {}
    THEN LET i == Least(BadStatusTasks(body.tasks) \cup BadResultTasks(body.tasks))
         IN  IF i \in BadStatusTasks(body.tasks) THEN StatusReason(body.tasks[i])
             ELSE "NoResults"
    ELSE IF Merged(body) = <<>> THEN "NoOrganicResults"
    ELSE "Return"

\* how the call ended: the reason of an ApiError, else the kind
Ending == IF outcome.kind = "ApiError" THEN outcome.reason ELSE outcome.kind

\* what holds of every ended call whichever way the task checks are ordered:
\* a transport or HTTP failure comes before the body is decoded, a top-level
\* failure carries the API's message and code, NoOrganicResults needs every
\* task to have passed both checks, and a failed call returns no list.
C4_Common ==
    /\ (SerpEnded /\ ~ parsed) =>
           /\ outcome.kind \in {"TransportError", "AuthError"}
           /\ http.net = "error" \/ RaisesForStatus(http.status)
    /\ (SerpEnded /\ parsed /\ response.valid /\ Ending = "TopLevel") =>
           /\ outcome.code = response.status_code
           /\ response.status_message # None =>
                  outcome.message = Get(response.status_message)
    /\ (SerpEnded /\ Ending = "NoOrganicResults") =>
           \A i \in 1..Len(response.tasks) :
               TaskStatusOk(response.tasks[i]) /\ TaskHasResults(response.tasks[i])
    /\ (SerpEnded /\ Ending # "Return") => returned = None

\* C4 as stated: the call reports the first failing layer in the order
\* transport/HTTP, top-level status, NoTasks, task status, NoResults,
\* NoOrganicResults, whatever the later layers contain.
C4_AsStated ==
    /\ C4_Common
    /\ (SerpEnded /\ parsed /\ response.valid) => Ending = FirstFailingLayer(response)

\* C4, amended: the same order, with the task status check and the task result
\* check made task by task in the order of the task list: the error is that of
\* the first task failing its status check or, passing it, its result check.
C4_FirstFailingCheck ==
    /\ C4_Common
    /\ (SerpEnded /\ parsed /\ response.valid) => Ending = FirstFailingCheck(response)

\* C4's case: the second task fails its status check after the first task's
\* item was accepted, and no list is returned.
C4_Witness ==
    /\ pc = "raised"
    /\ Ending = "TaskFailed"
    /\ ti = 2
    /\ results # <<>>
    /\ returned = None

\* C6: a task status of 40503 is reported as MalformedRequest, the request
\* validity guidance, and any other task status that is not 20000 as the
\* generic task failure with the task's status message and code.
C6_TaskStatusFailure ==
    ( /\ pc = "raised"
      /\ TopLevelOk
      /\ ti \in 1..Len(response.tasks)
      /\ ~ TaskStatusOk(response.tasks[ti]) )
    => LET task == response.tasks[ti]
       IN  /\ outcome.kind = "ApiError"
           /\ task.status_code = Some(STATUS_INVALID_POST) =>
                  outcome.reason = "MalformedRequest"
           /\ task.status_code # Some(STATUS_INVALID_POST) =>
                  /\ outcome.reason = "TaskFailed"
                  /\ outcome.code = task.status_code
                  /\ task.status_message # None =>
                         outcome.message = Get(task.status_message)

\* C6's case: a task with status 40503 ended the call.
C6_Witness ==
    /\ pc = "raised"
    /\ TopLevelOk
    /\ ti \in 1..Len(response.tasks)
    /\ response.tasks[ti].status_code = Some(STATUS_INVALID_POST)
    /\ outcome.reason = "MalformedRequest"

\* ceil(l / 10) for a positive l: the least k with 10 * k >= l
CeilTenth(l) == CHOOSE k \in 1..l : 10 * k >= l /\ 10 * (k - 1) < l

Clamp(x, lo, hi) == IF x < lo THEN lo ELSE IF x > hi THEN hi ELSE x

\* C3: the depth sent is clamp(ceil(limit / 10) * 10, 10, 100) for a limit in
\* [1, 100] and 100 for a limit above 100; it is a multiple of ten in
\* [10, 100] and at least min(limit, 100).
C3_RequestDepth ==
    payload # None =>
        LET depth == Get(payload).depth
        IN  /\ limit \in 1..100 => depth = Clamp(CeilTenth(limit) * 10, 10, 100)
            /\ limit > 100 => depth = 100
            /\ depth % 10 = 0
            /\ depth \in 10..100
            /\ depth >= Min(limit, 100)

\* C3's case: the request for a limit of 150 has been sent with depth 100.
C3_Witness ==
    /\ posts = 1
    /\ limit = 150
    /\ Get(payload).depth = 100

\* C5 as stated: when the API answers HTTP 401 the call fails with AuthError,
\* when it answers any other status outside 200..299 the call fails with
\* TransportError, and in both cases the body is never decoded and no list is
\* returned.
C5_AsStated ==
    (SerpEnded /\ http.net = "ok" /\ http.status \notin 200..299) =>
        /\ outcome.kind = IF http.status = 401 THEN "AuthError" ELSE "TransportError"
        /\ ~ parsed
        /\ returned = None

\* the keyword is missing or holds nothing but whitespace
BlankKeyword ==
    keyword = None \/ \A i \in 1..Len(Get(keyword)) : Get(keyword)[i] \in {" ", "\t"}

\* C7: with a keyword that is empty after trimming, the call fails with
\* EmptyQuery and no request is issued at any point, whatever the other
\* arguments.
C7_EmptyQueryBeforeNetwork ==
    BlankKeyword =>
        /\ posts = 0
        /\ log = <<>>
        /\ payload = None
        /\ pc # "validate" => pc = "raised" /\ outcome.kind = "EmptyQuery"

\* C7's case: a keyword of two spaces, a limit of 150 and an unknown device.
C7_Witness ==
    /\ keyword = Some(<<" ", " ">>)
    /\ limit = 150
    /\ device = "tablet"
    /\ pc = "raised"
    /\ outcome.kind = "EmptyQuery"
    /\ posts = 0

\* build_competitor_brief has returned
BriefEnded == pc = "brief_done"

\* content was obtained for a page: the GET gave a response, its status is
\* not an error status, and its paragraphs hold some text
ContentObtained(answer) ==
    /\ answer.net = "ok"
    /\ answer.status \notin 400..599
    /\ \E b \in 1..Len(answer.html) :
           answer.html[b].tag = "p" /\ answer.html[b].words # <<>>

\* C8: build_competitor_brief never raises and always returns a string; the
\* entry of each processed item is an excerpt entry (title, url, excerpt)
\* if content was obtained for it and the fallback notice if not, and it
\* depends on the item and on its own fetch only, so a failed fetch neither
\* ends the call nor changes another entry.
C8_BriefIsTotal ==
    /\ pc # "brief_raised"
    /\ BriefEnded => brief # None /\ Len(briefs) = Len(Selected)
    /\ pc \in {"brief_loop", "brief_done"} => Len(briefs) = Len(page)
    /\ \A i \in 1..Len(briefs) :
        /\ briefs[i].title = Selected[i].title
        /\ briefs[i].url = Selected[i].url
        /\ briefs[i].kind = IF ContentObtained(page[i]) THEN "excerpt" ELSE "fallback"
        /\ briefs[i].kind = "excerpt" =>
               briefs[i].excerpt # <<>> /\ TextLen(briefs[i].excerpt) <= EXCERPT_WIDTH
        /\ briefs[i] = BriefEntry(Selected[i], FetchCompetitorContent(page[i]))

\* C8's case: the first fetch raised, the second failed with an HTTP status,
\* the third gave content, and the call returned three entries.
C8_Witness ==
    /\ BriefEnded
    /\ Len(briefs) = 3
    /\ page[1].net = "Timeout"
    /\ page[2].status = 404
    /\ briefs[1].kind = "fallback"
    /\ briefs[2].kind = "fallback"
    /\ briefs[3].kind = "excerpt"

\* C9: for n results and max_items >= 0 the brief holds min(n, max_items)
\* entries, entry i built from results[i], joined by newlines; no result
\* past that prefix is fetched; the brief of no results is empty.
C9_EntriesArePrefix ==
    (BriefEnded /\ max_competitors >= 0) =>
        LET k == Min(Len(brief_in), max_competitors)
            text == Get(brief)
        IN  /\ Len(briefs) = k
            /\ \A i \in 1..k : /\ briefs[i].title = brief_in[i].title
                               /\ briefs[i].url = brief_in[i].url
            /\ Len(text) = IF k = 0 THEN 0 ELSE 2 * k - 1
            /\ \A j \in 1..Len(text) :
                   text[j] = IF j % 2 = 1 THEN briefs[(j + 1) \div 2] ELSE Newline
            /\ \A j \in 1..Len(log) : log[j][2] \in 1..k
            /\ brief_in = <<>> => text = <<>>

\* C9's case: three results and max_items = 2 gave two entries.
C9_Witness ==
    /\ BriefEnded
    /\ Len(brief_in) = 3
    /\ max_competitors = 2
    /\ Len(briefs) = 2
    /\ Len(Get(brief)) = 3

\* the positions of the events of one kind in the log
Events(kind) == { j \in 1..Len(log) : log[j][1] = kind }

\* C10: in a run of main() the ranking-API call is over before the first
\* competitor fetch starts, the fetches are made one at a time in result
\* order, each position is fetched at most once and the ranking API is
\* called at most once, and after a failed ranking-API call no fetch is made.
C10_SequentialPipeline ==
    /\ posts <= 1
    /\ Cardinality(Events("post")) = posts
    /\ \A j \in 1..Len(log) :
        /\ j = 1 => log[j] = <<"post", 0>>
        /\ j = 2 => log[j] = <<"post_done", 0>>
        /\ (j > 2 /\ j % 2 = 1) => log[j] = <<"get", (j - 1) \div 2>>
        /\ (j > 2 /\ j % 2 = 0) => log[j] = <<"get_done", (j - 2) \div 2>>
    /\ \A i, j \in Events("get") : log[i][2] = log[j][2] => i = j
    /\ outcome.kind \notin {"Pending", "Return"} => Events("get") = {}

\* C10's case: the ranking-API call, then two fetches one after the other.
C10_Witness ==
    /\ caller = "main"
    /\ pc = "done"
    /\ log = << <<"post", 0>>, <<"post_done", 0>>, <<"get", 1>>, <<"get_done", 1>>,
                <<"get", 2>>, <<"get_done", 2>> >>

====
